---- MODULE Spec2Model ----
(***************************************************************************)
(* A model of the DMX-512 controller: FtdiDmxInterface (the channel        *)
(* buffer, the render watermark and the wire framing of one packet) and    *)
(* DmxController (load, run and the sched.scheduler event queue).          *)
(*                                                                         *)
(* Time is counted in microseconds.  A Program is a sequence of entries    *)
(* in dict iteration order; a frame is a sequence of <<channel, value>>    *)
(* pairs in dict iteration order.  The variables wire, calls and fired     *)
(* are histories: what reached the device, what was called and with what   *)
(* outcome, and which events fired.                                        *)
(***************************************************************************)
EXTENDS Integers, Sequences, FiniteSets, TLC

(* ------------------------------ bounds -------------------------------- *)

\* Longest Program (number of entries) that load() is given.
MaxEntries == 2
\* Cap on the scheduler's event sequence counter: events entered in all runs.
MaxSequence == 4
\* Number of run() calls.
MaxRuns == 2
\* Number of direct calls on the interface in SpecUniverse.
MaxOps == 3

(* ------------------- constants of FtdiDmxInterface -------------------- *)

MS_PER_S == 1000000
NS_PER_MS == 1000
US_PER_MS == 1000
CHANNEL_RANGE == <<1, 512>>
VALUE_RANGE == <<0, 255>>
BREAK_ON == 1
BREAK_OFF == 0

None == "None"
\* DmxController._program is None, or Loaded(p).
NoProgram == <<>>
Loaded(p) == <<p>>
NoTimespec == [seconds |-> 0, nanoseconds |-> 0]

(* ------------------------------ inputs -------------------------------- *)

\* Arguments tried for set_channel and get_channel: both ends of the legal
\* ranges and the first illegal value beyond each end.
Channels == {0, 1, 10, 512, 513}
Values == {-1, 0, 255, 256}
\* Frames a Program is built from: well-formed ones, and ones whose second
\* pair has a channel or a value out of range.
Frames ==
    { << <<1, 255>> >>,
      << <<1, 0>> >>,
      << <<10, 255>>, <<513, 1>> >>,
      << <<2, 255>>, <<1, 256>> >> }
\* Program time offsets, in microseconds: 0 s, 1 us, 0.1 s.
Delays == {0, 1, 100000}
\* Microseconds that may pass between two readings of time.time().
Lags == {0, 1}
\* A write to the device succeeds or raises.
WriteOutcomes == {TRUE, FALSE}

Entries == [delay : Delays, data : Frames]
\* dict keys are unique: no two entries of a Program share a time offset.
Programs ==
    { p \in UNION { [1..n -> Entries] : n \in 0..MaxEntries } :
        \A i, j \in 1..Len(p) : i # j => p[i].delay # p[j].delay }

VARIABLES
    dmx_channels,            \* FtdiDmxInterface._dmx_channels; index c+1 holds channel c
    highest_updated_channel, \* FtdiDmxInterface._highest_updated_channel
    ftdi_device,             \* "open" | "closed"
    wire,                    \* history of what was done to the device
    now,                     \* time.time(), in microseconds
    calls,                   \* history of interface calls and their outcome
    raised,                  \* the exception the last call raised, or None
    program,                 \* DmxController._program
    queue,                   \* sched.scheduler._queue
    sequence,                \* sched.scheduler._sequence_generator
    pc,                      \* where the controller is
    idx,                     \* run(): the entry the enumerate loop is at
    fired,                   \* events fired since the current run() began
    runs,                    \* run() calls made so far
    run_wire0,               \* Len(wire) when the current run() began
    run_time0,               \* time.time() when the current run() began
    json_data,               \* JsonToDmx._data, in dict iteration order
    json_out,                \* what JsonToDmx.convert() made, once it ran
    qxw_sequences,           \* QxwConverter._sequences.values()
    serialized_data,         \* QxwConverter._serialized_data
    compressed_serialized_data, \* QxwConverter._compressed_serialized_data
    qxw_pc                   \* where QxwConverter is

vars == <<dmx_channels, highest_updated_channel, ftdi_device, wire, now, calls,
          raised, program, queue, sequence, pc, idx, fired, runs, run_wire0,
          run_time0, json_data, json_out, qxw_sequences, serialized_data,
          compressed_serialized_data, qxw_pc>>

ifaceVars == <<dmx_channels, highest_updated_channel, ftdi_device, wire, now,
               calls, raised>>
ctrlVars == <<program, queue, sequence, pc, idx, fired, runs, run_wire0,
              run_time0>>
\* The state of the converters, which the controller and the interface
\* never touch.
toolVars == <<json_data, json_out, qxw_sequences, serialized_data,
              compressed_serialized_data, qxw_pc>>
importVars == <<qxw_sequences, serialized_data, compressed_serialized_data,
                qxw_pc>>

(* --------------------------- FtdiDmxInterface -------------------------- *)

Max(a, b) == IF a >= b THEN a ELSE b

\* The interface's state as one value, for the operators below.
Iface ==
    [dmx_channels |-> dmx_channels,
     highest_updated_channel |-> highest_updated_channel,
     ftdi_device |-> ftdi_device,
     wire |-> wire, now |-> now, calls |-> calls, raised |-> raised]

SetIface(d) ==
    /\ dmx_channels' = d.dmx_channels
    /\ highest_updated_channel' = d.highest_updated_channel
    /\ ftdi_device' = d.ftdi_device
    /\ wire' = d.wire
    /\ now' = d.now
    /\ calls' = d.calls
    /\ raised' = d.raised

WireOp(op, arg, ts, data) == [op |-> op, arg |-> arg, ts |-> ts, data |-> data]
Call(op, channel, value, exc) ==
    [op |-> op, channel |-> channel, value |-> value, raised |-> exc]

Logged(d, op, channel, value, exc) ==
    [d EXCEPT !.calls = Append(@, Call(op, channel, value, exc)), !.raised = exc]

\* libc nanosleep: the caller is suspended for at least the requested time.
nanosleep(d, ts) ==
    [d EXCEPT !.wire = Append(@, WireOp("nanosleep", 0, ts, <<>>)),
              !.now = @ + ts.seconds * 1000000 + (ts.nanoseconds \div 1000)]

\* Mutant: the microseconds are handed over as nanoseconds.
wait_us_unscaled(d, microseconds) ==
    LET sleep_time == [seconds |-> microseconds \div MS_PER_S,
                       nanoseconds |-> microseconds % MS_PER_S]
    IN  nanosleep(d, sleep_time)

wait_us(d, microseconds) ==
    LET sleep_time == [seconds |-> microseconds \div MS_PER_S,
                       nanoseconds |-> (microseconds % MS_PER_S) * NS_PER_MS]
    IN  nanosleep(d, sleep_time)

wait_ms(d, milliseconds) == wait_us(d, milliseconds * US_PER_MS)

ftdi_set_line_property2(d, break) ==
    [d EXCEPT !.wire = Append(@, WireOp("set_break", break, NoTimespec, <<>>))]

\* Mutant: the buffer is zeroed and the watermark is left as it was.
reset_keeps_watermark(d) ==
    [d EXCEPT !.dmx_channels = [i \in 1..(CHANNEL_RANGE[2] + 1) |-> 0]]

reset(d) ==
    [d EXCEPT !.dmx_channels = [i \in 1..(CHANNEL_RANGE[2] + 1) |-> 0],
              !.highest_updated_channel = CHANNEL_RANGE[2]]

\* Mutant: the watermark becomes the channel last set.
set_channel_last(d, channel, value) ==
    IF ~(CHANNEL_RANGE[1] <= channel /\ channel <= CHANNEL_RANGE[2])
    THEN Logged(d, "set_channel", channel, value, "ValueError")
    ELSE IF ~(VALUE_RANGE[1] <= value /\ value <= VALUE_RANGE[2])
    THEN Logged(d, "set_channel", channel, value, "ValueError")
    ELSE Logged([d EXCEPT !.dmx_channels[channel + 1] = value,
                          !.highest_updated_channel = channel],
                "set_channel", channel, value, None)

\* Mutant: the value is stored before it is looked at.
set_channel_stores_first(d, channel, value) ==
    IF ~(CHANNEL_RANGE[1] <= channel /\ channel <= CHANNEL_RANGE[2])
    THEN Logged(d, "set_channel", channel, value, "ValueError")
    ELSE LET d1 == [d EXCEPT !.dmx_channels[channel + 1] = value,
                             !.highest_updated_channel = Max(@, channel)]
         IN  IF ~(VALUE_RANGE[1] <= value /\ value <= VALUE_RANGE[2])
             THEN Logged(d1, "set_channel", channel, value, "ValueError")
             ELSE Logged(d1, "set_channel", channel, value, None)

\* Mutant: storing the value the channel already holds returns early.
set_channel_skips_unchanged(d, channel, value) ==
    IF ~(CHANNEL_RANGE[1] <= channel /\ channel <= CHANNEL_RANGE[2])
    THEN Logged(d, "set_channel", channel, value, "ValueError")
    ELSE IF ~(VALUE_RANGE[1] <= value /\ value <= VALUE_RANGE[2])
    THEN Logged(d, "set_channel", channel, value, "ValueError")
    ELSE IF d.dmx_channels[channel + 1] = value
    THEN Logged(d, "set_channel", channel, value, None)
    ELSE Logged([d EXCEPT !.dmx_channels[channel + 1] = value,
                          !.highest_updated_channel = Max(@, channel)],
                "set_channel", channel, value, None)

\* Mutant: channel 0, the slot of the start code, is taken as a channel.
set_channel_from_zero(d, channel, value) ==
    IF ~(0 <= channel /\ channel <= CHANNEL_RANGE[2])
    THEN Logged(d, "set_channel", channel, value, "ValueError")
    ELSE IF ~(VALUE_RANGE[1] <= value /\ value <= VALUE_RANGE[2])
    THEN Logged(d, "set_channel", channel, value, "ValueError")
    ELSE Logged([d EXCEPT !.dmx_channels[channel + 1] = value,
                          !.highest_updated_channel = Max(@, channel)],
                "set_channel", channel, value, None)

set_channel(d, channel, value) ==
    IF ~(CHANNEL_RANGE[1] <= channel /\ channel <= CHANNEL_RANGE[2])
    THEN Logged(d, "set_channel", channel, value, "ValueError")
    ELSE IF ~(VALUE_RANGE[1] <= value /\ value <= VALUE_RANGE[2])
    THEN Logged(d, "set_channel", channel, value, "ValueError")
    ELSE Logged([d EXCEPT !.dmx_channels[channel + 1] = value,
                          !.highest_updated_channel = Max(@, channel)],
                "set_channel", channel, value, None)

\* Mutant: the slot below the channel's is read.
get_channel_below(d, channel) ==
    IF ~(CHANNEL_RANGE[1] <= channel /\ channel <= CHANNEL_RANGE[2])
    THEN Logged(d, "get_channel", channel, 0, "ValueError")
    ELSE Logged(d, "get_channel", channel, d.dmx_channels[channel], None)

\* The call's entry in calls holds the value returned.
get_channel(d, channel) ==
    IF ~(CHANNEL_RANGE[1] <= channel /\ channel <= CHANNEL_RANGE[2])
    THEN Logged(d, "get_channel", channel, 0, "ValueError")
    ELSE Logged(d, "get_channel", channel, d.dmx_channels[channel + 1], None)

\* ok: whether Device.write succeeds; when it raises, render stops there.
render(d, ok) ==
    LET data == SubSeq(d.dmx_channels, 1, d.highest_updated_channel + 1)
        d1 == wait_us(ftdi_set_line_property2(d, BREAK_ON), 96)
        d2 == wait_us(ftdi_set_line_property2(d1, BREAK_OFF), 8)
    IN  IF ok
        THEN LET d3 == [d2 EXCEPT !.wire =
                           Append(@, WireOp("write", 0, NoTimespec, data))]
                 d4 == wait_ms(d3, 2)
             IN  Logged([d4 EXCEPT !.highest_updated_channel = 0],
                        "render", 0, 0, None)
        ELSE Logged([d2 EXCEPT !.wire =
                        Append(@, WireOp("write_failed", 0, NoTimespec, data))],
                    "render", 0, 0, "FtdiError")

\* One entry in calls: the outcome is the outcome of the render inside.
blackout(d, ok) ==
    LET d1 == render(reset(d), ok)
    IN  [d1 EXCEPT !.calls = Append(d.calls, Call("blackout", 0, 0, d1.raised))]

\* FtdiDmxInterface.__del__: an exception out of blackout() ends it.
interface_del(d, ok) ==
    LET d1 == blackout(d, ok)
    IN  IF d1.raised # None
        THEN d1
        ELSE [d1 EXCEPT !.wire = Append(@, WireOp("close", 0, NoTimespec, <<>>)),
                        !.ftdi_device = "closed"]

\* FtdiDmxInterface.__init__, when the device opens and the first write succeeds.
interface_init ==
    blackout([dmx_channels |-> <<>>, highest_updated_channel |-> 0,
              ftdi_device |-> "open", wire |-> <<>>, now |-> 0,
              calls |-> <<>>, raised |-> None], TRUE)

(* ----------------------------- Init ----------------------------------- *)

\* No converter has run.
NotConverted == [state |-> "new"]

InitNoImport ==
    /\ qxw_sequences = <<>>
    /\ serialized_data = <<>>
    /\ compressed_serialized_data = <<>>
    /\ qxw_pc = "new"

InitController ==
    /\ dmx_channels = interface_init.dmx_channels
    /\ highest_updated_channel = interface_init.highest_updated_channel
    /\ ftdi_device = interface_init.ftdi_device
    /\ wire = interface_init.wire
    /\ now = interface_init.now
    /\ calls = interface_init.calls
    /\ raised = interface_init.raised
    /\ program = NoProgram
    /\ queue = {}
    /\ sequence = 0
    /\ pc = "idle"
    /\ idx = 0
    /\ fired = <<>>
    /\ runs = 0
    /\ run_wire0 = 0
    /\ run_time0 = 0

Init ==
    /\ InitController
    /\ json_data = <<>>
    /\ json_out = NotConverted
    /\ InitNoImport

(* ------------------- direct use of the interface ----------------------- *)

SetChannel ==
    /\ pc = "idle" /\ Len(calls) <= MaxOps
    /\ \E channel \in Channels, value \in Values :
          SetIface(set_channel(Iface, channel, value))
    /\ UNCHANGED <<ctrlVars, toolVars>>

GetChannel ==
    /\ pc = "idle" /\ Len(calls) <= MaxOps
    /\ \E channel \in Channels : SetIface(get_channel(Iface, channel))
    /\ UNCHANGED <<ctrlVars, toolVars>>

Render ==
    /\ pc = "idle" /\ Len(calls) <= MaxOps
    /\ \E ok \in WriteOutcomes : SetIface(render(Iface, ok))
    /\ UNCHANGED <<ctrlVars, toolVars>>

Blackout ==
    /\ pc = "idle" /\ Len(calls) <= MaxOps
    /\ \E ok \in WriteOutcomes : SetIface(blackout(Iface, ok))
    /\ UNCHANGED <<ctrlVars, toolVars>>

NextUniverse ==
    \/ SetChannel
    \/ GetChannel
    \/ Render
    \/ Blackout

SpecUniverse == Init /\ [][NextUniverse]_vars

(* ------------------------------ sched ---------------------------------- *)

\* sched.Event: events compare by (time, priority, sequence).  delay is the
\* Program time offset the event was entered with.
Event(time, priority, seq, delay, data) ==
    [time |-> time, priority |-> priority, sequence |-> seq,
     delay |-> delay, data |-> data]

EventLess(a, b) ==
    \/ a.time < b.time
    \/ a.time = b.time /\ a.priority < b.priority
    \/ a.time = b.time /\ a.priority = b.priority /\ a.sequence < b.sequence

\* q[0] of the heap: the least event.
QueueHead(q) == CHOOSE e \in q : \A f \in q \ {e} : EventLess(e, f)

\* scheduler.enter(delay, priority, ...): time = timefunc() + delay.
enter(q, clock, seq, delay, priority, data) ==
    q \cup {Event(clock + delay, priority, seq, delay, data)}

(* --------------------------- DmxController ----------------------------- *)

\* load(): float(t), int(channel), int(value) of numbers that are integral.
load(p) ==
    [i \in 1..Len(p) |->
        [delay |-> p[i].delay,
         data |-> [j \in 1..Len(p[i].data) |->
                      <<p[i].data[j][1], p[i].data[j][2]>>]]]

\* self._interface.stop(): FtdiDmxInterface defines no stop.
stop(d) == Logged(d, "stop", 0, 0, "AttributeError")

RECURSIVE SetChannels(_, _, _)
\* for channel, value in data.items(): self._interface[channel] = value
SetChannels(d, data, i) ==
    IF i > Len(data)
    THEN d
    ELSE LET d1 == set_channel(d, data[i][1], data[i][2])
         IN  IF d1.raised # None THEN d1 ELSE SetChannels(d1, data, i + 1)

\* Mutant: a failing event puts the buffer and the watermark back.
scheduler_callback_rollback(d, data, ok) ==
    LET d1 == SetChannels([d EXCEPT !.raised = None], data, 1)
    IN  IF d1.raised # None
        THEN [d1 EXCEPT !.dmx_channels = d.dmx_channels,
                        !.highest_updated_channel = d.highest_updated_channel]
        ELSE LET d2 == render(d1, ok)
             IN  IF d2.raised # None
                 THEN [d2 EXCEPT !.dmx_channels = d.dmx_channels,
                                 !.highest_updated_channel = d.highest_updated_channel]
                 ELSE d2

\* Mutant: an event starts from a cleared buffer.
scheduler_callback_clears(d, data, ok) ==
    LET d1 == SetChannels([reset(d) EXCEPT !.raised = None], data, 1)
    IN  IF d1.raised # None THEN d1 ELSE render(d1, ok)

scheduler_callback(d, data, ok) ==
    LET d1 == SetChannels([d EXCEPT !.raised = None], data, 1)
    IN  IF d1.raised # None THEN d1 ELSE render(d1, ok)

\* Mutant: load() scans the Program and refuses one that holds a channel or
\* a value out of range.
LoadValidated ==
    /\ pc = "idle" /\ program = NoProgram
    /\ \E p \in Programs :
          IF \A i \in 1..Len(p) : \A j \in 1..Len(p[i].data) :
                /\ CHANNEL_RANGE[1] <= p[i].data[j][1]
                /\ p[i].data[j][1] <= CHANNEL_RANGE[2]
                /\ VALUE_RANGE[1] <= p[i].data[j][2]
                /\ p[i].data[j][2] <= VALUE_RANGE[2]
          THEN program' = Loaded(load(p)) /\ raised' = raised
          ELSE program' = program /\ raised' = "ValueError"
    /\ UNCHANGED <<dmx_channels, highest_updated_channel, ftdi_device, wire,
                   now, calls, queue, sequence, pc, idx, fired, runs, run_wire0, run_time0, toolVars>>

\* Explored while nothing is loaded yet.
Load ==
    /\ pc = "idle" /\ program = NoProgram
    /\ \E p \in Programs : program' = Loaded(load(p))
    /\ UNCHANGED <<ifaceVars, queue, sequence, pc, idx, fired, runs, run_wire0, run_time0, toolVars>>

\* Mutant: the program is looked at only after the device was blacked out.
RunNotLoadedAfterBlackout ==
    /\ pc = "idle" /\ program = NoProgram
    /\ runs < MaxRuns
    /\ runs' = runs + 1
    /\ SetIface([blackout(Iface, TRUE) EXCEPT !.raised = "RuntimeError"])
    /\ UNCHANGED <<program, queue, sequence, pc, idx, fired, run_wire0, run_time0, toolVars>>

\* run() with no program: line 42 raises.
RunNotLoaded ==
    /\ pc = "idle" /\ program = NoProgram
    /\ runs < MaxRuns
    /\ runs' = runs + 1
    /\ raised' = "RuntimeError"
    /\ UNCHANGED <<dmx_channels, highest_updated_channel, ftdi_device, wire,
                   now, calls, program, queue, sequence, pc, idx, fired,
                   run_wire0, run_time0, toolVars>>

\* run() with a program: the enumerate loop begins.
RunLoaded ==
    /\ pc = "idle" /\ program # NoProgram
    /\ runs < MaxRuns
    /\ sequence + Len(program[1]) <= MaxSequence
    /\ runs' = runs + 1
    /\ pc' = IF Len(program[1]) = 0 THEN "sched" ELSE "enter"
    /\ idx' = 1
    /\ fired' = <<>>
    /\ run_wire0' = Len(wire)
    /\ run_time0' = now
    /\ raised' = None
    /\ UNCHANGED <<dmx_channels, highest_updated_channel, ftdi_device, wire,
                   now, calls, program, queue, sequence, toolVars>>

\* One pass of the loop of line 44: one scheduler.enter call.
Enter ==
    /\ pc = "enter"
    /\ \E lag \in Lags :
          /\ now' = now + lag
          /\ queue' = enter(queue, now', sequence, program[1][idx].delay,
                            idx - 1, program[1][idx].data)
    /\ sequence' = sequence + 1
    /\ idx' = idx + 1
    /\ pc' = IF idx = Len(program[1]) THEN "sched" ELSE "enter"
    /\ UNCHANGED <<dmx_channels, highest_updated_channel, ftdi_device, wire,
                   calls, raised, program, fired, runs, run_wire0, run_time0, toolVars>>

\* scheduler.run(): the head is not due; delayfunc(time - now).
SchedDelay ==
    /\ pc = "sched" /\ queue # {}
    /\ QueueHead(queue).time > now
    /\ now' = QueueHead(queue).time
    /\ UNCHANGED <<dmx_channels, highest_updated_channel, ftdi_device, wire,
                   calls, raised, ctrlVars, toolVars>>

\* An entry of the history fired: the event, the time its action was
\* called at and the time its action was left at.
Fired(e, at, end) ==
    [time |-> e.time, priority |-> e.priority, sequence |-> e.sequence,
     delay |-> e.delay, data |-> e.data, at |-> at, end |-> end]

\* Mutant: the head is popped and its action called without waiting for
\* the head's time.
SchedFireEarly ==
    /\ pc = "sched" /\ queue # {}
    /\ \E ok \in WriteOutcomes :
          LET d == scheduler_callback(Iface, QueueHead(queue).data, ok)
          IN  /\ SetIface(d)
              /\ pc' = IF d.raised # None THEN "idle" ELSE "sched"
    /\ queue' = queue \ {QueueHead(queue)}
    /\ fired' = Append(fired, Fired(QueueHead(queue), now, now'))
    /\ UNCHANGED <<program, sequence, idx, runs, run_wire0, run_time0, toolVars>>

\* scheduler.run(): the head is due; it is popped and its action called.
\* An exception out of the action leaves scheduler.run() and run().
SchedFire ==
    /\ pc = "sched" /\ queue # {}
    /\ QueueHead(queue).time <= now
    /\ \E ok \in WriteOutcomes :
          LET d == scheduler_callback(Iface, QueueHead(queue).data, ok)
          IN  /\ SetIface(d)
              /\ pc' = IF d.raised # None THEN "idle" ELSE "sched"
    /\ queue' = queue \ {QueueHead(queue)}
    /\ fired' = Append(fired, Fired(QueueHead(queue), now, now'))
    /\ UNCHANGED <<program, sequence, idx, runs, run_wire0, run_time0, toolVars>>

\* Mutant: run() forgets its program when the scheduler has returned.
RunStopForgetsProgram ==
    /\ pc = "sched" /\ queue = {}
    /\ SetIface(stop(Iface))
    /\ pc' = "idle"
    /\ program' = NoProgram
    /\ UNCHANGED <<queue, sequence, idx, fired, runs, run_wire0, run_time0, toolVars>>

\* scheduler.run() returns on an empty queue; line 48 follows.
RunStop ==
    /\ pc = "sched" /\ queue = {}
    /\ SetIface(stop(Iface))
    /\ pc' = "idle"
    /\ UNCHANGED <<program, queue, sequence, idx, fired, runs, run_wire0, run_time0, toolVars>>

\* The controller is collected: DmxController.__del__ (its exception is
\* ignored), then FtdiDmxInterface.__del__ (its exception is ignored too).
ControllerDel ==
    /\ pc = "idle"
    /\ \E ok \in WriteOutcomes :
          SetIface([interface_del(stop(Iface), ok) EXCEPT !.raised = raised])
    /\ pc' = "finalized"
    /\ UNCHANGED <<program, queue, sequence, idx, fired, runs, run_wire0, run_time0, toolVars>>

Next ==
    \/ Load
    \/ RunNotLoaded
    \/ RunLoaded
    \/ Enter
    \/ SchedDelay
    \/ SchedFire
    \/ RunStop
    \/ ControllerDel

Spec == Init /\ [][Next]_vars

(* ------------------------------ JsonToDmx ------------------------------ *)

\* A timestamp is a float that is a whole number of ticks of 2^-TickBits
\* seconds (1/8 s): 12 stands for 1.5.  Such a float is exact as a double.
TickBits == 3

\* Timestamps of the JSON file: 0.0, 0.125, 1.5, and two that need 25 bits.
JsonTimes == {0, 1, 12, 2 ^ 24 + 1, 2 ^ 24 + 3}
\* Frames of the JSON file: empty, one pair, two pairs with a channel that
\* needs two bytes, a value over a byte, a channel over two bytes.
JsonFrames ==
    { <<>>,
      << <<1, 255>> >>,
      << <<300, 0>>, <<1, 255>> >>,
      << <<512, 255>>, <<2, 256>> >>,
      << <<65536, 0>> >> }
JsonEntries == [t : JsonTimes, frame : JsonFrames]
\* dict keys are unique: no two entries share a timestamp.
JsonPrograms ==
    { p \in UNION { [1..n -> JsonEntries] : n \in 0..MaxEntries } :
        \A i, j \in 1..Len(p) : i # j => p[i].t # p[j].t }

\* The position of the leading bit of n > 0.
BitLength(n) == CHOOSE l \in 0..29 : 2 ^ l <= n /\ n < 2 ^ (l + 1)

\* struct format "f": the double is rounded to the nearest float32 (ties
\* to even) and its IEEE 754 bit pattern is taken.  n is in ticks.
float32_bits(n) ==
    IF n = 0
    THEN 0
    ELSE LET l == BitLength(n)
             s == l - 23
             q == IF s <= 0 THEN n * 2 ^ (0 - s) ELSE n \div 2 ^ s
             r == IF s <= 0 THEN 0 ELSE n % 2 ^ s
             half == IF s <= 0 THEN 1 ELSE 2 ^ (s - 1)
             up == r > half \/ (r = half /\ q % 2 = 1)
             m == IF up THEN q + 1 ELSE q
             carry == m = 2 ^ 24
             mantissa == IF carry THEN 0 ELSE m - 2 ^ 23
             exponent == (l - TickBits) + 127 + (IF carry THEN 1 ELSE 0)
         IN  exponent * 2 ^ 23 + mantissa

\* The bytes of x, least significant first.
little_endian(x, bytes) == [i \in 1..bytes |-> (x \div 256 ^ (i - 1)) % 256]

\* A conversion under way: the bytearray, the offsets assigned so far (a
\* history), and the exception raised, if any.
Conversion(size) ==
    [buffer |-> [i \in 1..size |-> 0], written |-> {}, raised |-> None]

\* struct.pack_into(format, buffer, offset, ...) of packed bytes: beyond
\* the end of the buffer it raises.
pack_into(c, offset, packed) ==
    IF c.raised # None
    THEN c
    ELSE IF offset + Len(packed) > Len(c.buffer)
    THEN [c EXCEPT !.raised = "struct.error"]
    ELSE [c EXCEPT
            !.buffer = [i \in 1..Len(c.buffer) |->
                          IF i \in (offset + 1)..(offset + Len(packed))
                          THEN packed[i - offset]
                          ELSE c.buffer[i]],
            !.written = @ \cup (offset + 1)..(offset + Len(packed))]

\* ">4s" of b"DMX ".
pack_magic(c, offset) == pack_into(c, offset, <<68, 77, 88, 32>>)

\* "<I": a number outside 0..2^32-1 raises.
pack_I(c, offset, count) ==
    IF count < 0
    THEN [c EXCEPT !.raised = "struct.error"]
    ELSE pack_into(c, offset, little_endian(count, 4))

\* "<fH": a count outside 0..65535 raises.
pack_fH(c, offset, t, count) ==
    IF ~(0 <= count /\ count <= 65535)
    THEN [c EXCEPT !.raised = "struct.error"]
    ELSE pack_into(c, offset,
                   little_endian(float32_bits(t), 4) \o little_endian(count, 2))

\* "<HB": a channel outside 0..65535 or a value outside 0..255 raises.
pack_HB(c, offset, channel, value) ==
    IF ~(0 <= channel /\ channel <= 65535) \/ ~(0 <= value /\ value <= 255)
    THEN [c EXCEPT !.raised = "struct.error"]
    ELSE pack_into(c, offset, little_endian(channel, 2) \o <<value>>)

RECURSIVE buffer_size_short(_, _)
\* Mutant: two bytes are allowed for each pair.
buffer_size_short(data, i) ==
    IF i > Len(data)
    THEN 8
    ELSE 6 + 2 * Len(data[i].frame) + buffer_size_short(data, i + 1)

RECURSIVE buffer_size(_, _)
\* Lines 26-29: 8 bytes, and 6 + 3 * len(frame) for each frame from the
\* i-th on.
buffer_size(data, i) ==
    IF i > Len(data)
    THEN 8
    ELSE 6 + 3 * Len(data[i].frame) + buffer_size(data, i + 1)

RECURSIVE pack_pairs(_, _, _, _)
\* Lines 41-43, from the j-th pair on.
pack_pairs(c, offset, frame, j) ==
    IF j > Len(frame)
    THEN c
    ELSE pack_pairs(pack_HB(c, offset, frame[j][1], frame[j][2]),
                    offset + 3, frame, j + 1)

RECURSIVE pack_frames(_, _, _, _)
\* Lines 38-43, from the i-th frame on.
pack_frames(c, offset, data, i) ==
    IF i > Len(data)
    THEN c
    ELSE LET c1 == pack_fH(c, offset, data[i].t, Len(data[i].frame))
             c2 == pack_pairs(c1, offset + 6, data[i].frame, 1)
         IN  pack_frames(c2, offset + 6 + 3 * Len(data[i].frame), data, i + 1)

\* convert(): the file is opened and written when the packing raised
\* nothing; file is the bytes written to it.
convert(data) ==
    LET c0 == Conversion(buffer_size(data, 1))
        c1 == pack_magic(c0, 0)
        c2 == pack_I(c1, 4, Len(data))
        c3 == pack_frames(c2, 8, data, 1)
    IN  [state |-> "converted", buffer |-> c3.buffer, written |-> c3.written,
         raised |-> c3.raised,
         file |-> IF c3.raised = None THEN <<c3.buffer>> ELSE <<>>]

InitArtifact ==
    /\ InitController
    /\ json_data \in JsonPrograms
    /\ json_out = NotConverted
    /\ InitNoImport

Convert ==
    /\ json_out = NotConverted
    /\ json_out' = convert(json_data)
    /\ UNCHANGED <<ifaceVars, ctrlVars, json_data, importVars>>

NextArtifact ==
    \/ Convert

SpecArtifact == InitArtifact /\ [][NextArtifact]_vars

(* ----------------------------- QxwConverter ---------------------------- *)

\* Sequence.TIME_RESOLUTION, in ms.
TIME_RESOLUTION == 5

\* Most samples a sequence holds before its closing frame of zeros.
MaxSamples == 2
\* Most sequences of a show.
MaxShowFunctions == 2

\* ShowFunction.start_time, in ms.
StartTimes == {0, 2}
\* The channels of the steps of a sequence, in the set's iteration order.
ChannelSets == {<<1>>, <<1, 2>>}
\* What Segment.get_value returns.
SampleValues == {0, 100}

\* A parsed sequence, as far as serialize_data depends on it: its start
\* time, its channels, and the value get_value gives for every sample
\* time and channel.
ParsedSequences ==
    UNION { [start_time : StartTimes, channels : {cs},
             samples : UNION { [1..n -> [1..Len(cs) -> SampleValues]] :
                                 n \in 1..MaxSamples }] :
            cs \in ChannelSets }

\* A dict is the sequence of its items, in iteration order: assigning to a
\* key it holds replaces the value in place, a new key goes to the end.
DictSet(dict, t, frame) ==
    IF \E i \in 1..Len(dict) : dict[i].t = t
    THEN [i \in 1..Len(dict) |->
            IF dict[i].t = t THEN [t |-> t, frame |-> frame] ELSE dict[i]]
    ELSE Append(dict, [t |-> t, frame |-> frame])

RECURSIVE DictUpdate(_, _, _)
\* dict[key] = value for the items of other, from the i-th on.
DictUpdate(dict, other, i) ==
    IF i > Len(other)
    THEN dict
    ELSE DictUpdate(DictSet(dict, other[i].t, other[i].frame), other, i + 1)

\* last_frame.get(channel) != value: get gives None for a channel the
\* frame does not hold, and None differs from every value.
get_differs(last_frame, channel, value) ==
    ~\E j \in 1..Len(last_frame) :
        last_frame[j][1] = channel /\ last_frame[j][2] = value

\* Sequence.serialize_data: one frame of all the sequence's channels every
\* TIME_RESOLUTION ms from start_time on, then a frame of zeros.  Times are
\* in ms (the keys are t / 1000).
serialize_data(s) ==
    LET n == Len(s.samples)
        k == Len(s.channels)
    IN  [i \in 1..(n + 1) |->
            [t |-> s.start_time + (i - 1) * TIME_RESOLUTION,
             frame |-> [j \in 1..k |->
                          <<s.channels[j],
                            IF i <= n THEN s.samples[i][j] ELSE 0>>]]]

RECURSIVE serialize(_, _, _)
\* _serialize: the dict comprehension over the sequences, from the i-th on.
serialize(dict, seqs, i) ==
    IF i > Len(seqs)
    THEN dict
    ELSE serialize(DictUpdate(dict, serialize_data(seqs[i]), 1), seqs, i + 1)

\* The pairs of the frame whose value differs from last_frame's.
compressed_frame(last_frame, frame) ==
    SelectSeq(frame, LAMBDA pair : get_differs(last_frame, pair[1], pair[2]))

RECURSIVE compress(_, _, _, _)
\* _compress: the loop over the serialized frames, from the i-th on.
compress(compressed, last_frame, serialized, i) ==
    IF i > Len(serialized)
    THEN compressed
    ELSE LET cf == compressed_frame(last_frame, serialized[i].frame)
         IN  compress(IF Len(cf) > 0
                      THEN DictSet(compressed, serialized[i].t, cf)
                      ELSE compressed,
                      serialized[i].frame, serialized, i + 1)

InitImport ==
    /\ InitController
    /\ json_data = <<>>
    /\ json_out = NotConverted
    /\ qxw_sequences \in
          UNION { [1..n -> ParsedSequences] : n \in 1..MaxShowFunctions }
    /\ serialized_data = <<>>
    /\ compressed_serialized_data = <<>>
    /\ qxw_pc = "parsed"

\* QxwConverter.convert() behind the parsing: _serialize, _compress; the
\* JSON file holds the compressed dict.
ConvertQxw ==
    /\ qxw_pc = "parsed"
    /\ serialized_data' = serialize(<<>>, qxw_sequences, 1)
    /\ compressed_serialized_data' = compress(<<>>, <<>>, serialized_data', 1)
    /\ qxw_pc' = "converted"
    /\ UNCHANGED <<ifaceVars, ctrlVars, json_data, json_out, qxw_sequences>>

NextImport ==
    \/ ConvertQxw

SpecImport == InitImport /\ [][NextImport]_vars

(* ----------------------- reading the histories ------------------------- *)

Zeros(n) == [i \in 1..n |-> 0]

IsWrite(e) == e.op = "write"
IsWriteAttempt(e) == e.op \in {"write", "write_failed"}

\* The packets written to the device, in order.
Packets(w) == SelectSeq(w, IsWrite)
\* The packets handed to Device.write, written or not, in order.
Attempts(w) == SelectSeq(w, IsWriteAttempt)

\* What reached the device since the current run() began.
RunWire == SubSeq(wire, run_wire0 + 1, Len(wire))

\* run() has been called on a loaded controller and is over.
RunOver == pc = "idle" /\ runs >= 1 /\ program # NoProgram /\ raised # "RuntimeError"

(* ------------------------------- C1 ------------------------------------ *)

\* C1 (as claimed): when run() is over and every event of the n-entry
\* Program succeeded, run() has written n event packets followed by one
\* forced full blackout packet (513 zero bytes), and has returned normally.
C1_RendersThenBlackoutThenReturn ==
    (/\ RunOver /\ runs = 1 /\ Len(program[1]) >= 1
     /\ raised \notin {"ValueError", "FtdiError"}) =>
        LET ps == Packets(RunWire)
            n == Len(program[1])
        IN  /\ raised = None
            /\ Len(ps) = n + 1
            /\ \A i \in 1..n : i <= Len(ps) => Len(ps[i].data) < 513
            /\ ps[Len(ps)].data = Zeros(513)

(* ------------------------------- C2 ------------------------------------ *)

\* C2 (as claimed): in the first run(), events fire strictly in ascending
\* order of their Program time offsets, whatever the iteration order and
\* whatever time passes between the enter calls.
C2_FireInAscendingOffsetOrder ==
    runs = 1 =>
        \A i, j \in 1..Len(fired) : i < j => fired[i].delay < fired[j].delay

(* ------------------------------- C3 ------------------------------------ *)

\* C3 (as claimed): when the controller has been shut down after a run(),
\* whether the run() ended after its last event or by a failure, the device has
\* been released exactly once, the release is the last thing done to the
\* device, and a written blackout packet of 513 zero bytes (followed by its
\* settle wait) comes right before the release.
C3_BlackoutThenReleaseOnEveryShutdown ==
    (pc = "finalized" /\ runs >= 1 /\ program # NoProgram) =>
        LET n == Len(wire)
        IN  /\ Cardinality({i \in 1..n : wire[i].op = "close"}) = 1
            /\ wire[n].op = "close"
            /\ wire[n - 2].op = "write"
            /\ wire[n - 2].data = Zeros(513)
            /\ ftdi_device = "closed"

(* ------------------------------- C4 ------------------------------------ *)

InRange(pair) == pair[1] \in 1..512 /\ pair[2] \in 0..255

\* The first pair of a frame that set_channel refuses, or Len + 1.
FirstBad(data) ==
    IF \E i \in 1..Len(data) : ~InRange(data[i])
    THEN CHOOSE i \in 1..Len(data) :
            /\ ~InRange(data[i])
            /\ \A j \in 1..(i - 1) : InRange(data[j])
    ELSE Len(data) + 1

\* The buffer after the pairs before the k-th were stored.
StoredBefore(ch, data, k) ==
    [i \in 1..Len(ch) |->
        IF \E j \in 1..(k - 1) : data[j][1] = i - 1
        THEN data[CHOOSE j \in 1..(k - 1) : data[j][1] = i - 1][2]
        ELSE ch[i]]

\* The watermark after the pairs before the k-th were stored.
RaisedBefore(hi, data, k) ==
    CHOOSE m \in {hi} \cup {data[j][1] : j \in 1..(k - 1)} :
        \A x \in {hi} \cup {data[j][1] : j \in 1..(k - 1)} : x <= m

\* C4: when the event that fires holds a pair set_channel refuses, or its
\* write fails, then run() is over with that exception, the other events
\* stay unfired in the queue, the buffer and the watermark are what the
\* pairs before the failure made them, and no packet was written.
C4_FailingEventAbortsRun ==
    [][ Len(fired') = Len(fired) + 1 =>
          LET e == QueueHead(queue)
              k == FirstBad(e.data)
              refused == k <= Len(e.data)
              unwritten == Len(wire') > Len(wire)
                             /\ wire'[Len(wire')].op = "write_failed"
          IN  (refused \/ unwritten) =>
                /\ pc' = "idle"
                /\ raised' = IF refused THEN "ValueError" ELSE "FtdiError"
                /\ fired' = Append(fired, Fired(e, now, now'))
                /\ queue' = queue \ {e}
                /\ dmx_channels' = StoredBefore(dmx_channels, e.data, k)
                /\ highest_updated_channel' =
                      RaisedBefore(highest_updated_channel, e.data, k)
                /\ Packets(wire') = Packets(wire)
                /\ refused => wire' = wire
      ]_vars

\* An event failed at its second pair: the first pair's channel is stored,
\* the watermark is raised, and another event is left unfired.
C4_Witness ==
    /\ pc = "idle" /\ raised = "ValueError" /\ runs = 1
    /\ queue # {}
    /\ dmx_channels[11] = 255
    /\ highest_updated_channel = 10

(* ------------------------------- C5 ------------------------------------ *)

\* C5 (as claimed): once run() is over, the controller holds no program.
C5_IdleAfterRun == RunOver => program = NoProgram

\* C5 (amended): no step of run() changes the program: when run() is over,
\* by its last event or by a failure, the controller still holds the
\* program it was run with (Loaded, not Idle).
C5_ProgramKeptByRun ==
    [][ (pc \in {"enter", "sched"} \/ pc' \in {"enter", "sched"}) =>
          (program' = program /\ program' # NoProgram) ]_vars

\* run() is over, once by a failing event and once after its last event.
C5_Witness ==
    /\ RunOver /\ runs = 2
    /\ raised = "AttributeError"
    /\ \E i \in 1..Len(calls) : calls[i].raised = "FtdiError"

(* ------------------------------- C6 ------------------------------------ *)

\* C6: run() on a controller that holds no program raises (RuntimeError,
\* "No program loaded.") and does nothing else: nothing is done to the
\* device, no event is entered, no interface call is made.
C6_RunWithoutLoadRaises ==
    [][ (runs' = runs + 1 /\ program = NoProgram) =>
          /\ raised' = "RuntimeError"
          /\ pc' = "idle"
          /\ wire' = wire
          /\ queue' = queue /\ sequence' = sequence
          /\ calls' = calls
          /\ dmx_channels' = dmx_channels
          /\ highest_updated_channel' = highest_updated_channel
          /\ program' = NoProgram ]_vars

C6_Witness ==
    /\ raised = "RuntimeError" /\ program = NoProgram /\ runs >= 1
    /\ pc = "idle" /\ queue = {}

(* ------------------------------- C7 ------------------------------------ *)

IsRenderOrBlackout(c) == c.op \in {"render", "blackout"}

\* The render and blackout calls, in order: the k-th of them handed the
\* k-th packet to Device.write.
Renders(cs) == SelectSeq(cs, IsRenderOrBlackout)

\* C7: the packet that open() hands to the device, and the packet that
\* every blackout() hands to the device, is 513 zero bytes, whatever the
\* buffer and the watermark were when blackout() was called.
C7_BlackoutPacketIsFullAndZero ==
    LET rs == Renders(calls)
        as == Attempts(wire)
    IN  /\ Len(rs) = Len(as)
        /\ as[1].op = "write" /\ as[1].data = Zeros(513)
        /\ \A k \in 1..Len(rs) :
              rs[k].op = "blackout" => as[k].data = Zeros(513)

\* A blackout() that followed the render of a short packet with a lit channel.
C7_Witness ==
    LET as == Attempts(wire)
        n == Len(as)
    IN  /\ n >= 3
        /\ calls[Len(calls)].op = "blackout"
        /\ Len(as[n - 1].data) = 11 /\ as[n - 1].data[11] = 255
        /\ as[n].data = Zeros(513)

(* ------------------------------- C8 ------------------------------------ *)

\* Index in calls of the last render or blackout that wrote its packet.
LastWritten(cs) ==
    LET S == {i \in 1..Len(cs) : IsRenderOrBlackout(cs[i]) /\ cs[i].raised = None}
    IN  IF S = {} THEN 0 ELSE CHOOSE i \in S : \A j \in S : j <= i

\* The highest channel a successful set_channel was given since then, or 0.
HighestSetSince(cs) ==
    LET S == {cs[i].channel : i \in {j \in (LastWritten(cs) + 1)..Len(cs) :
                 cs[j].op = "set_channel" /\ cs[j].raised = None}}
    IN  IF S = {} THEN 0 ELSE CHOOSE m \in S : \A x \in S : x <= m

\* A blackout() reset the buffer since then (its own write failed).
ResetSince(cs) ==
    \E i \in (LastWritten(cs) + 1)..Len(cs) : cs[i].op = "blackout"

\* A step that is one render() call.
RenderStep ==
    /\ Len(calls') = Len(calls) + 1
    /\ calls'[Len(calls')].op = "render"
    /\ Len(wire') > Len(wire)

\* C8 (as claimed): a render() that writes its packet writes the buffer
\* bytes 0..h, h the highest channel given to a successful set_channel
\* since the previous written render, and then sets the watermark to 0.
C8_RenderSendsUpToHighestSet ==
    [][ (RenderStep /\ raised' = None) =>
          /\ wire'[Len(wire') - 1].op = "write"
          /\ wire'[Len(wire') - 1].data =
                SubSeq(dmx_channels, 1, HighestSetSince(calls) + 1)
          /\ highest_updated_channel' = 0 ]_vars

\* C8 (amended): the watermark is the highest channel given to a
\* successful set_channel since the last render or blackout that wrote
\* its packet, or 512 when a blackout whose write failed came since then;
\* render() hands the buffer bytes 0..watermark to the device; when the
\* write succeeds the watermark becomes 0, when it fails it stays.
C8_RenderSendsUpToWatermark ==
    /\ [](highest_updated_channel =
            IF ResetSince(calls) THEN 512 ELSE HighestSetSince(calls))
    /\ [][ RenderStep =>
             LET h == IF ResetSince(calls) THEN 512 ELSE HighestSetSince(calls)
                 written == raised' = None
                 at == IF written THEN Len(wire') - 1 ELSE Len(wire')
             IN  /\ wire'[at].op = IF written THEN "write" ELSE "write_failed"
                 /\ wire'[at].data = SubSeq(dmx_channels, 1, h + 1)
                 /\ Len(Attempts(wire')) = Len(Attempts(wire)) + 1
                 /\ highest_updated_channel' = IF written THEN 0 ELSE h ]_vars

\* Only channel 10 was set since the previous render: 11 bytes are written.
C8_Witness ==
    LET n == Len(calls)
    IN  /\ n >= 3
        /\ calls[n].op = "render" /\ calls[n].raised = None
        /\ calls[n - 1].op = "set_channel" /\ calls[n - 1].raised = None
        /\ calls[n - 1].channel = 10
        /\ IsRenderOrBlackout(calls[n - 2]) /\ calls[n - 2].raised = None
        /\ Len(wire[Len(wire) - 1].data) = 11
        /\ highest_updated_channel = 0

(* ------------------------------- C9 ------------------------------------ *)

\* The time a nanosleep record asks for, in nanoseconds.
Nanoseconds(e) == e.ts.seconds * 1000000000 + e.ts.nanoseconds

IsSleepOf(e, ns) == e.op = "nanosleep" /\ Nanoseconds(e) >= ns

\* C9: every packet handed to the device comes after BREAK on, a wait of
\* at least 88 us, BREAK off and a wait of at least 8 us, in that order and
\* with nothing in between; every written packet is followed at once by a
\* wait of at least 2 ms; and BREAK is never switched outside this frame.
C9_BreakMabWriteSettle ==
    \A i \in 1..Len(wire) :
        /\ IsWriteAttempt(wire[i]) =>
              /\ i >= 5
              /\ wire[i - 4].op = "set_break" /\ wire[i - 4].arg = BREAK_ON
              /\ IsSleepOf(wire[i - 3], 88000)
              /\ wire[i - 2].op = "set_break" /\ wire[i - 2].arg = BREAK_OFF
              /\ IsSleepOf(wire[i - 1], 8000)
        /\ wire[i].op = "write" =>
              i + 1 <= Len(wire) /\ IsSleepOf(wire[i + 1], 2000000)
        /\ (wire[i].op = "set_break" /\ wire[i].arg = BREAK_ON) =>
              i + 4 <= Len(wire) /\ IsWriteAttempt(wire[i + 4])
        /\ (wire[i].op = "set_break" /\ wire[i].arg = BREAK_OFF) =>
              i + 2 <= Len(wire) /\ IsWriteAttempt(wire[i + 2])

\* A short packet with a lit channel was written after an earlier render.
C9_Witness ==
    LET ps == Packets(wire)
    IN  /\ Len(ps) >= 3
        /\ Len(ps[Len(ps)].data) = 2
        /\ ps[Len(ps)].data[2] = 255
        /\ wire[Len(wire)].op = "nanosleep"

(* ------------------------------- C10 ----------------------------------- *)

\* C10: set_channel with a channel outside 1..512 or a value outside
\* 0..255 raises ValueError and leaves all 513 buffer slots and the
\* watermark as they were.
C10_RefusedSetChannelChangesNothing ==
    [][ (/\ Len(calls') = Len(calls) + 1
         /\ calls'[Len(calls')].op = "set_channel"
         /\ \/ calls'[Len(calls')].channel \notin 1..512
            \/ calls'[Len(calls')].value \notin 0..255) =>
          /\ calls'[Len(calls')].raised = "ValueError"
          /\ raised' = "ValueError"
          /\ Len(dmx_channels') = 513
          /\ dmx_channels' = dmx_channels
          /\ highest_updated_channel' = highest_updated_channel
          /\ wire' = wire ]_vars

\* A refused set_channel on a buffer that holds a lit channel and a raised
\* watermark.
C10_Witness ==
    LET n == Len(calls)
    IN  /\ calls[n].op = "set_channel" /\ calls[n].raised = "ValueError"
        /\ calls[n].channel = 10 /\ calls[n].value = 256
        /\ dmx_channels[11] = 255
        /\ highest_updated_channel = 10

(* ------------------------------- C11 ----------------------------------- *)

Malformed(data) == FirstBad(data) <= Len(data)

\* The packet holds every pair of the frame.
Carries(packet, data) ==
    \A j \in 1..Len(data) :
        /\ data[j][1] + 1 <= Len(packet)
        /\ packet[data[j][1] + 1] = data[j][2]

\* C11: load() takes any Program, also one that holds channels or values
\* out of range, raises nothing and touches nothing but the program; in
\* run() a ValueError is raised only by the step that fires an event whose
\* frame holds a pair out of range, and by then every event fired before it
\* in this run has well-formed pairs and a packet of its own, holding its
\* frame, written to the device.
C11_RangeErrorOnlyWhenEventFires ==
    /\ [][ (/\ pc = "idle" /\ program = NoProgram
            /\ runs' = runs /\ pc' = "idle") =>
             /\ program' # NoProgram
             /\ raised' = raised
             /\ calls' = calls /\ wire' = wire ]_vars
    /\ [][ (raised' = "ValueError" /\ raised # "ValueError") =>
             /\ fired' = Append(fired, Fired(QueueHead(queue), now, now'))
             /\ Malformed(QueueHead(queue).data)
             /\ \A i \in 1..Len(fired) : ~Malformed(fired[i].data)
             /\ Packets(wire') = Packets(wire)
             /\ LET ps == Packets(RunWire)
                IN  /\ Len(ps) = Len(fired)
                    /\ \A i \in 1..Len(fired) :
                          i <= Len(ps) => Carries(ps[i].data, fired[i].data) ]_vars

\* A Program whose second event is malformed was loaded and run: the first
\* event's packet was written, then the second event raised.
C11_Witness ==
    /\ pc = "idle" /\ raised = "ValueError" /\ runs = 1
    /\ Len(fired) = 2
    /\ ~Malformed(fired[1].data) /\ Malformed(fired[2].data)
    /\ Len(Packets(RunWire)) = 1
    /\ Packets(RunWire)[1].data = <<0, 255>>

(* ------------------------------- C12 ----------------------------------- *)

\* The channels a frame lists.
Listed(data) == {data[j][1] : j \in 1..Len(data)}

\* C12: while run() is under way the buffer changes only when an event
\* fires; the event leaves every channel its frame does not list at the
\* value stored before, and, when no pair of the frame is refused, stores
\* the listed value in every channel the frame lists.  The render of the
\* event changes no stored value.
C12_OmittedChannelsKeepTheirValue ==
    [][ (pc \in {"enter", "sched"}) =>
          IF Len(fired') = Len(fired) + 1
          THEN LET data == QueueHead(queue).data
               IN  /\ Len(dmx_channels') = 513
                   /\ \A c \in 0..512 :
                         c \notin Listed(data) =>
                            dmx_channels'[c + 1] = dmx_channels[c + 1]
                   /\ ~Malformed(data) =>
                         \A j \in 1..Len(data) :
                            dmx_channels'[data[j][1] + 1] = data[j][2]
          ELSE dmx_channels' = dmx_channels ]_vars

\* The first event lit channel 1 and was rendered; the second event, whose
\* frame lists channels 10 and 513, has fired: channel 1 is still lit.
C12_Witness ==
    /\ Len(fired) = 2 /\ runs = 1
    /\ fired[1].data = << <<1, 255>> >>
    /\ 1 \notin Listed(fired[2].data)
    /\ Len(Packets(RunWire)) = 1
    /\ dmx_channels[2] = 255 /\ dmx_channels[11] = 255

(* ------------------------------- C13 ----------------------------------- *)

\* What the calls 1..n stored in the channel: the value of the last
\* successful set_channel of that channel since the last blackout, or 0.
StoredBy(cs, n, channel) ==
    LET B == {i \in 1..n : cs[i].op = "blackout"}
        b == IF B = {} THEN 0 ELSE CHOOSE i \in B : \A j \in B : j <= i
        S == {i \in (b + 1)..n : /\ cs[i].op = "set_channel"
                                 /\ cs[i].raised = None
                                 /\ cs[i].channel = channel}
    IN  IF S = {} THEN 0 ELSE cs[CHOOSE i \in S : \A j \in S : j <= i].value

\* C13: get_channel of a channel in 1..512 raises nothing and returns the
\* value of the last successful set_channel of that channel, whatever
\* set_channel, get_channel and render calls came in between or before (0
\* when a blackout came since, or none was made); so set_channel(c, v)
\* followed by get_channel(c) returns v.
C13_GetReturnsLastSet ==
    \A n \in 1..Len(calls) :
        (calls[n].op = "get_channel" /\ calls[n].channel \in 1..512) =>
            /\ calls[n].raised = None
            /\ calls[n].value = StoredBy(calls, n - 1, calls[n].channel)
            /\ (/\ calls[n - 1].op = "set_channel"
                /\ calls[n - 1].raised = None
                /\ calls[n - 1].channel = calls[n].channel) =>
                   calls[n].value = calls[n - 1].value

\* After a render, set_channel(512, 255) and then get_channel(512): 255.
C13_Witness ==
    LET n == Len(calls)
    IN  /\ n >= 4
        /\ calls[n - 2].op = "render"
        /\ calls[n - 1] = Call("set_channel", 512, 255, None)
        /\ calls[n] = Call("get_channel", 512, 255, None)

(* ------------------------------- C15 ----------------------------------- *)

\* C15: a set_channel(c, v) that raises nothing stores v in channel c and
\* makes the watermark the greater of the watermark and c, also when v is
\* the value channel c already held; and a render() that comes right after
\* it hands at least c + 1 bytes to the device.
C15_SetChannelRaisesWatermark ==
    /\ [][ (/\ Len(calls') = Len(calls) + 1
            /\ calls'[Len(calls')].op = "set_channel"
            /\ calls'[Len(calls')].raised = None) =>
             LET c == calls'[Len(calls')].channel
                 v == calls'[Len(calls')].value
             IN  /\ highest_updated_channel' = Max(highest_updated_channel, c)
                 /\ highest_updated_channel' >= c
                 /\ dmx_channels' = [dmx_channels EXCEPT ![c + 1] = v] ]_vars
    /\ [][ (/\ RenderStep
            /\ calls[Len(calls)].op = "set_channel"
            /\ calls[Len(calls)].raised = None) =>
             LET as == Attempts(wire')
             IN  Len(as[Len(as)].data) >= calls[Len(calls)].channel + 1 ]_vars

\* Channel 10 held 0 and was set to 0 again; the render that followed
\* wrote 11 bytes.
C15_Witness ==
    LET n == Len(calls)
        ps == Packets(wire)
    IN  /\ n >= 3
        /\ calls[n] = Call("render", 0, 0, None)
        /\ calls[n - 1] = Call("set_channel", 10, 0, None)
        /\ StoredBy(calls, n - 2, 10) = 0
        /\ ps[Len(ps)].data = Zeros(11)

(* ------------------------------- C16 ----------------------------------- *)

\* A packet for Device.write: 1 to 513 bytes, the first of them 0, all of
\* them in 0..255.
WellFormedPacket(packet) ==
    /\ Len(packet) \in 1..513
    /\ packet[1] = 0
    /\ \A k \in 1..Len(packet) : packet[k] \in 0..255

\* C16: the buffer always has 513 slots and slot 0 always holds the start
\* code 0, whatever calls were made and whether they raised; the buffer
\* holds only values in 0..255, at first and after every step that changes
\* it; and every packet handed to Device.write, written or not, by open()
\* and by every step after it, is 1 to 513 bytes long, begins with 0 and
\* holds only values in 0..255.
C16_StartCodeStaysZero ==
    /\ \A k \in 1..Len(dmx_channels) : dmx_channels[k] \in 0..255
    /\ \A i \in 1..Len(wire) :
          IsWriteAttempt(wire[i]) => WellFormedPacket(wire[i].data)
    /\ [](Len(dmx_channels) = 513 /\ dmx_channels[1] = 0)
    /\ [][ /\ dmx_channels' # dmx_channels =>
                 \A k \in 1..Len(dmx_channels') : dmx_channels'[k] \in 0..255
           /\ Len(wire') >= Len(wire)
           /\ \A i \in (Len(wire) + 1)..Len(wire') :
                 IsWriteAttempt(wire'[i]) => WellFormedPacket(wire'[i].data)
         ]_vars

\* Channel 1 was lit, a set_channel of channel 0 was refused, and the
\* render that followed handed the start code and channel 1 to the device.
C16_Witness ==
    LET n == Len(calls)
        as == Attempts(wire)
    IN  /\ n >= 4
        /\ calls[n].op = "render"
        /\ calls[n - 1] = Call("set_channel", 0, 255, "ValueError")
        /\ calls[n - 2] = Call("set_channel", 1, 255, None)
        /\ as[Len(as)].data = <<0, 255>>

(* ------------------------------- C18 ----------------------------------- *)

\* The entry of the Program that the event was entered for.
EntryOf(e) == [delay |-> e.delay, data |-> e.data]

\* C18 (as claimed): the event queue is empty whenever run() starts on a
\* loaded controller, and when a run() has fired its last event, it has
\* fired one event for each entry of the loaded Program and no other.
C18_RunFiresItsOwnEventsOnly ==
    /\ [][ (runs' = runs + 1 /\ program # NoProgram) => queue = {} ]_vars
    /\ []( (RunOver /\ raised = "AttributeError") =>
             /\ Len(fired) = Len(program[1])
             /\ \A i \in 1..Len(program[1]) :
                   \E j \in 1..Len(fired) : EntryOf(fired[j]) = program[1][i]
             /\ \A j \in 1..Len(fired) :
                   \E i \in 1..Len(program[1]) : EntryOf(fired[j]) = program[1][i] )

(* ------------------------------- C17 ----------------------------------- *)

\* How long after its scheduled time the event fired.
LagOf(f) == f.at - f.time

\* C17: an event fires at the later of its own scheduled time and the
\* time the event before it was finished with, never sooner and never
\* later; so when the gap between the scheduled times of two events that
\* fire one after the other is less than the time the first one took, the
\* second fires further behind its scheduled time than the first did.
C17_ExecutionTimeIsNotMadeUp ==
    \A j \in 2..Len(fired) :
        LET a == fired[j - 1]
            b == fired[j]
        IN  /\ a.end >= a.at
            /\ b.at = Max(b.time, a.end)
            /\ (b.time - a.time < a.end - a.at) => LagOf(b) > LagOf(a)

\* Two events whose offsets are 1 us apart: the first fired on time and
\* took 2104 us, the second fired more than 2 ms behind its time.
C17_Witness ==
    /\ Len(fired) = 2 /\ runs = 1
    /\ fired[2].delay - fired[1].delay = 1
    /\ LagOf(fired[1]) = 0
    /\ fired[1].end - fired[1].at = 2104
    /\ LagOf(fired[2]) > 2000

(* ------------------------------- C20 ----------------------------------- *)

\* C20 (as claimed): every event fired in a run() fired no earlier than
\* the time that run() started plus the event's Program time offset.
C20_NoEventFiresEarly ==
    \A i \in 1..Len(fired) : fired[i].at >= run_time0 + fired[i].delay

(* ------------------------------- C14 ----------------------------------- *)

\* Reading the layout of the artifact: offsets count from 0.
U16At(b, o) == b[o + 1] + 256 * b[o + 2]
U32At(b, o) ==
    b[o + 1] + 256 * b[o + 2] + 65536 * b[o + 3] + 16777216 * b[o + 4]

\* The float32 at offset o, in ticks of 2^-TickBits s.
F32At(b, o) ==
    LET bits == U32At(b, o)
        e == (bits \div (2 ^ 23)) - 127 + TickBits - 23
        m == 2 ^ 23 + (bits % (2 ^ 23))
    IN  IF bits = 0 THEN 0
        ELSE IF e >= 0 THEN m * 2 ^ e ELSE m \div 2 ^ (0 - e)

PairsAt(b, o, k) ==
    [j \in 1..k |-> <<U16At(b, o + 3 * (j - 1)), b[o + 3 * (j - 1) + 3]>>]

RECURSIVE FramesAt(_, _, _)
\* The n frames that begin at offset o.
FramesAt(b, o, n) ==
    IF n = 0
    THEN <<>>
    ELSE LET k == U16At(b, o + 4)
         IN  <<[t |-> F32At(b, o), frame |-> PairsAt(b, o + 6, k)]>>
                \o FramesAt(b, o + 6 + 3 * k, n - 1)

RECURSIVE EndOfFrames(_, _, _)
\* The offset behind the n frames that begin at offset o.
EndOfFrames(b, o, n) ==
    IF n = 0 THEN o ELSE EndOfFrames(b, o + 6 + 3 * U16At(b, o + 4), n - 1)

\* The frame's channels fit "H" and its values fit "B".
Packable(frame) ==
    \A j \in 1..Len(frame) : frame[j][1] \in 0..65535 /\ frame[j][2] \in 0..255

\* a and b, in ticks, are equal at float32 precision: equal when a has at
\* most 24 significant bits, and within half a unit of the 24th bit.
SameAsFloat32(a, b) ==
    /\ a < 2 ^ 24 => b = a
    /\ 2 ^ 24 * (IF a >= b THEN a - b ELSE b - a) <= a

\* C14: when every pair of the Program fits the record (u16 channel, u8
\* value), convert() raises nothing and writes a file that is the whole
\* buffer: every byte of the buffer was assigned and none beyond it; the
\* file begins with "DMX " and the frame count, and reading the frames per
\* the layout uses up the file and gives as many frames, in the order of
\* the Program, with the same pairs in the same order and timestamps equal
\* at float32 precision.  When a pair does not fit, convert() raises and
\* writes no file.
C14_ArtifactRoundTrips ==
    json_out # NotConverted =>
        IF \A i \in 1..Len(json_data) : Packable(json_data[i].frame)
        THEN /\ json_out.raised = None
             /\ json_out.file = <<json_out.buffer>>
             /\ json_out.written = 1..Len(json_out.buffer)
             /\ LET b == json_out.file[1]
                    n == U32At(b, 4)
                    frames == FramesAt(b, 8, n)
                IN  /\ SubSeq(b, 1, 4) = <<68, 77, 88, 32>>
                    /\ n = Len(json_data)
                    /\ EndOfFrames(b, 8, n) = Len(b)
                    /\ Len(frames) = Len(json_data)
                    /\ \A i \in 1..Len(json_data) :
                          /\ frames[i].frame = json_data[i].frame
                          /\ SameAsFloat32(json_data[i].t, frames[i].t)
        ELSE /\ json_out.raised = "struct.error"
             /\ json_out.file = <<>>

\* A Program of two frames was converted: a frame of two pairs at a
\* timestamp that float32 cannot hold, read back at the nearest float32,
\* then an empty frame at 0.125 s.
C14_Witness ==
    /\ json_out # NotConverted
    /\ json_data = << [t |-> 2 ^ 24 + 3, frame |-> << <<300, 0>>, <<1, 255>> >>],
                      [t |-> 1, frame |-> <<>>] >>
    /\ Len(json_out.file) = 1
    /\ Len(json_out.file[1]) = 26
    /\ F32At(json_out.file[1], 8) = 2 ^ 24 + 4
    /\ F32At(json_out.file[1], 20) = 1

(* ------------------------------- C19 ----------------------------------- *)

\* The frame lists the channel.
Lists(frame, channel) == \E j \in 1..Len(frame) : frame[j][1] = channel

ValueIn(frame, channel) ==
    frame[CHOOSE j \in 1..Len(frame) : frame[j][1] = channel][2]

\* The value the channel holds once the frames of the Program with a
\* timestamp of at most t were applied in ascending time order to a
\* buffer of zeros.
PlayedValue(dict, t, channel) ==
    LET S == {i \in 1..Len(dict) :
                 dict[i].t <= t /\ Lists(dict[i].frame, channel)}
    IN  IF S = {}
        THEN 0
        ELSE ValueIn(dict[CHOOSE i \in S : \A k \in S : dict[k].t <= dict[i].t].frame,
                     channel)

\* C19 (as claimed): at every timestamp of the uncompressed Program,
\* playing the compressed Program in ascending time order gives every
\* channel the value that playing the uncompressed Program gives it, also
\* when the frames of several sequences make the iteration order differ
\* from the time order; and a channel that a frame of the uncompressed
\* Program lists is left out of the compressed frame only when the frame
\* gives it the value it already holds in playback.
C19_CompressionPreservesPlayback ==
    qxw_pc = "converted" =>
        \A i \in 1..Len(serialized_data) :
            \A j \in 1..Len(serialized_data[i].frame) :
                LET t == serialized_data[i].t
                    channel == serialized_data[i].frame[j][1]
                    value == serialized_data[i].frame[j][2]
                    kept == \E k \in 1..Len(compressed_serialized_data) :
                               /\ compressed_serialized_data[k].t = t
                               /\ Lists(compressed_serialized_data[k].frame,
                                        channel)
                IN  /\ PlayedValue(compressed_serialized_data, t, channel) =
                          PlayedValue(serialized_data, t, channel)
                    /\ ~kept =>
                          PlayedValue(serialized_data, t - 1, channel) = value

====
